---- MODULE Spec2Model ----
(***************************************************************************)
(* State-machine model of the NFTContract ledger of src/src/lib.rs: the    *)
(* persistent contract state, and one action per contract method (mint,    *)
(* transfer, claim).  Every method call is one atomic step: the host runs  *)
(* a call to completion before the next one starts, and a panic rolls the  *)
(* call back.  The variable `last` records the call of the latest step     *)
(* (method, signer, arguments) and its outcome.                            *)
(***************************************************************************)
EXTENDS Integers, Sequences, FiniteSets, TLC

\* ---------------------------------------------------------------- bounds
\* Most record-creating calls explored (batch mints plus successful claims).
MaxCreates == 2

\* ------------------------------------------------------- program constants
\* `for i in 0..100` of mint's batch mode.
BatchSize == 100
\* `next_public_token_id: 1` of new.
FirstTokenId == 1

\* ------------------------------------------------------------ input sets
Accounts == {"acc0", "acc1", "acc2"}
\* The account the contract is constructed with.
AdminArgs == {"acc0"}
TokenIdArgs == {1, 2}
ImageUrls == {"http://example.com/nft1"}
NoAccount == "-"

\* Option<Vec<AccountId>>: None, or Some(list)
None == [some |-> FALSE, list |-> <<>>]
Some(l) == [some |-> TRUE, list |-> l]
\* The empty list, every single account, a list with a duplicate, and the
\* two-account list of test_mint.
ClaimerLists ==
    {<<>>} \cup {<<a>> : a \in Accounts} \cup {<<"acc1", "acc1">>, <<"acc1", "acc2">>}
ClaimersArgs == {None} \cup {Some(l) : l \in ClaimerLists}

\* Outcome of a call: the boolean it returns, or a panic (fatal abort).
RetTrue == "true"
RetFalse == "false"
Panic == "panic"

VARIABLES nfts, owner_id, next_public_token_id, allowed_claimers, last

vars == <<nfts, owner_id, next_public_token_id, allowed_claimers, last>>
state == <<nfts, owner_id, next_public_token_id, allowed_claimers>>

\* struct NFT
NFT(o, t, u) == [owner_id |-> o, token_id |-> t, image_url |-> u]

\* The call of a step and its outcome.
Call(op, caller, token_id, image_url, claimers, receiver_id, ret) ==
    [op |-> op, caller |-> caller, token_id |-> token_id,
     image_url |-> image_url, allowed_claimers |-> claimers,
     receiver_id |-> receiver_id, ret |-> ret]

\* NFTContract::new
new(admin) ==
    /\ nfts = <<>>
    /\ owner_id = admin
    /\ next_public_token_id = FirstTokenId
    /\ allowed_claimers = {}
    /\ last = Call("new", admin, 0, "", None, NoAccount, "none")

Init == \E admin \in AdminArgs : new(admin)

\* Variant: the record is looked up by its token id (ids count from 1).
VectorGet_ById(v, index) ==
    IF index < 1 \/ index > Len(v) THEN [some |-> FALSE, val |-> NFT(NoAccount, 0, "")]
    ELSE [some |-> TRUE, val |-> v[index]]

\* Vector::get(index): None past the end, otherwise a copy of the element
\* (positions count from 0).
VectorGet(v, index) ==
    IF index >= Len(v) THEN [some |-> FALSE, val |-> NFT(NoAccount, 0, "")]
    ELSE [some |-> TRUE, val |-> v[index + 1]]

\* Variant: the list replaces the set instead of being merged into it.
InsertAll_Replace(set, list) == {list[i] : i \in 1..Len(list)}

\* Variant: an empty list clears the set (claiming is open again).
InsertAll_ClearOnEmpty(set, list) ==
    IF list = <<>> THEN {} ELSE set \cup {list[i] : i \in 1..Len(list)}

\* `for claimer in claimers_list { self.allowed_claimers.insert(claimer) }`
RECURSIVE InsertAll(_, _)
InsertAll(set, list) ==
    IF list = <<>> THEN set
    ELSE InsertAll(set \cup {Head(list)}, Tail(list))

\* Variant: the counter is incremented before the push.
BatchRecords_IncFirst(owner, n, image_url) ==
    [i \in 1..BatchSize |-> NFT(owner, n + i, image_url)]

\* The records pushed by `for i in 0..100 { push(..); next_public_token_id += 1 }`
\* starting with counter n.
BatchRecords(owner, n, image_url) ==
    [i \in 1..BatchSize |-> NFT(owner, n + (i - 1), image_url)]

\* The registry holds BatchSize records per batch mint and one per claim
\* (fewer than BatchSize claims are explored).
NumBatches == Len(nfts) \div BatchSize
NumClaims == Len(nfts) % BatchSize
NumCreates == NumBatches + NumClaims

\* Variant: the signer is not checked.
NotOwner_NoCheck(caller) == FALSE

\* `caller != self.owner_id` of mint
NotOwner(caller) == caller # owner_id

\* Variant: registering claimers also consumes a token id.
mint_ListTakesId(caller, token_id, image_url, claimers) ==
    IF NotOwner(caller)
    THEN /\ last' = Call("mint", caller, token_id, image_url, claimers, NoAccount, Panic)
         /\ UNCHANGED state
    ELSE IF claimers.some
    THEN /\ allowed_claimers' = InsertAll(allowed_claimers, claimers.list)
         /\ next_public_token_id' = next_public_token_id + 1
         /\ last' = Call("mint", caller, token_id, image_url, claimers, NoAccount, RetTrue)
         /\ UNCHANGED <<nfts, owner_id>>
    ELSE /\ NumCreates < MaxCreates
         /\ nfts' = nfts \o BatchRecords(owner_id, next_public_token_id, image_url)
         /\ next_public_token_id' = next_public_token_id + BatchSize
         /\ last' = Call("mint", caller, token_id, image_url, claimers, NoAccount, RetTrue)
         /\ UNCHANGED <<owner_id, allowed_claimers>>

\* NFTContract::mint
mint(caller, token_id, image_url, claimers) ==
    IF NotOwner(caller)
    THEN /\ last' = Call("mint", caller, token_id, image_url, claimers, NoAccount, Panic)
         /\ UNCHANGED state
    ELSE IF claimers.some
    THEN /\ allowed_claimers' = InsertAll(allowed_claimers, claimers.list)
         /\ last' = Call("mint", caller, token_id, image_url, claimers, NoAccount, RetTrue)
         /\ UNCHANGED <<nfts, owner_id, next_public_token_id>>
    ELSE /\ NumCreates < MaxCreates
         /\ nfts' = nfts \o BatchRecords(owner_id, next_public_token_id, image_url)
         /\ next_public_token_id' = next_public_token_id + BatchSize
         /\ last' = Call("mint", caller, token_id, image_url, claimers, NoAccount, RetTrue)
         /\ UNCHANGED <<owner_id, allowed_claimers>>

\* Variant: the owner of the record is not checked.
NotTokenOwner_NoCheck(nft, caller) == FALSE

\* `nft.owner_id != caller` of transfer
NotTokenOwner(nft, caller) == nft.owner_id # caller

\* Variant: the record is written back with the looked-up position as its
\* token id.
TransferStore_IdFromIndex(v, index, receiver_id) ==
    [v EXCEPT ![index + 1] = NFT(receiver_id, index, v[index + 1].image_url)]

\* Variant: the new owner is written back one slot too low.
TransferStore_OffByOne(v, index, receiver_id) ==
    IF index >= 1 THEN [v EXCEPT ![index].owner_id = receiver_id] ELSE v

\* The registry after the body of transfer: `nft` is the copy returned by
\* Vector::get, so `nft.owner_id = receiver_id` assigns to a local that is
\* dropped at return; nothing is written back to self.nfts.
TransferStore(v, index, receiver_id) ==
    LET nft == [v[index + 1] EXCEPT !.owner_id = receiver_id]
    IN  v

\* NFTContract::transfer
transfer(caller, receiver_id, token_id) ==
    LET got == VectorGet(nfts, token_id) IN
    IF ~got.some
    THEN /\ last' = Call("transfer", caller, token_id, "", None, receiver_id, RetFalse)
         /\ UNCHANGED state
    ELSE IF NotTokenOwner(got.val, caller)
    THEN /\ last' = Call("transfer", caller, token_id, "", None, receiver_id, RetFalse)
         /\ UNCHANGED state
    ELSE /\ nfts' = TransferStore(nfts, token_id, receiver_id)
         /\ last' = Call("transfer", caller, token_id, "", None, receiver_id, RetTrue)
         /\ UNCHANGED <<owner_id, next_public_token_id, allowed_claimers>>

\* Variant: the contract owner may always claim.
MayClaim_OwnerBypass(caller) ==
    allowed_claimers = {} \/ caller \in allowed_claimers \/ caller = owner_id

\* `self.allowed_claimers.is_empty() || self.allowed_claimers.contains(&caller)`
MayClaim(caller) == allowed_claimers = {} \/ caller \in allowed_claimers

\* Variant: the claimed record goes to the contract owner.
ClaimRecord_ToOwner(caller, n) == NFT(owner_id, n, "")

\* `NFT { owner_id: caller, token_id: self.next_public_token_id, image_url: "" }`
ClaimRecord(caller, n) == NFT(caller, n, "")

\* Variant: a successful claim uses up the caller's entry in the claimer set.
claim_Consume(caller) ==
    IF MayClaim(caller)
    THEN /\ NumCreates < MaxCreates
         /\ nfts' = Append(nfts, ClaimRecord(caller, next_public_token_id))
         /\ next_public_token_id' = next_public_token_id + 1
         /\ allowed_claimers' = allowed_claimers \ {caller}
         /\ last' = Call("claim", caller, 0, "", None, NoAccount, RetTrue)
         /\ UNCHANGED owner_id
    ELSE /\ last' = Call("claim", caller, 0, "", None, NoAccount, RetFalse)
         /\ UNCHANGED state

\* Variant: the counter is not advanced by a claim.
claim_NoIncrement(caller) ==
    IF MayClaim(caller)
    THEN /\ NumCreates < MaxCreates
         /\ nfts' = Append(nfts, ClaimRecord(caller, next_public_token_id))
         /\ last' = Call("claim", caller, 0, "", None, NoAccount, RetTrue)
         /\ UNCHANGED <<owner_id, next_public_token_id, allowed_claimers>>
    ELSE /\ last' = Call("claim", caller, 0, "", None, NoAccount, RetFalse)
         /\ UNCHANGED state

\* NFTContract::claim
claim(caller) ==
    IF MayClaim(caller)
    THEN /\ NumCreates < MaxCreates
         /\ nfts' = Append(nfts, ClaimRecord(caller, next_public_token_id))
         /\ next_public_token_id' = next_public_token_id + 1
         /\ last' = Call("claim", caller, 0, "", None, NoAccount, RetTrue)
         /\ UNCHANGED <<owner_id, allowed_claimers>>
    ELSE /\ last' = Call("claim", caller, 0, "", None, NoAccount, RetFalse)
         /\ UNCHANGED state

\* Variant: the constructor ignores the stored state and starts over.
new_on_existing_Overwrite(admin) ==
    /\ nfts' = <<>>
    /\ owner_id' = admin
    /\ next_public_token_id' = FirstTokenId
    /\ allowed_claimers' = {}
    /\ last' = Call("new", admin, 0, "", None, NoAccount, "none")

\* NFTContract::new called on a deployed contract: the entry point generated
\* for `#[init]` panics when the contract state already exists, before the
\* body of new runs.
new_on_existing(admin) ==
    /\ last' = Call("new", admin, 0, "", None, NoAccount, Panic)
    /\ UNCHANGED state

\* Positions tried by transfer: the first and the last record, and the first
\* position past the end.
PositionArgs == {p \in {0, Len(nfts) - 1, Len(nfts)} : p >= 0}

MintStep ==
    \E c \in Accounts, t \in TokenIdArgs, u \in ImageUrls, a \in ClaimersArgs :
        mint(c, t, u, a)
TransferStep ==
    \E c \in Accounts, r \in Accounts, p \in PositionArgs : transfer(c, r, p)
ClaimStep ==
    \E c \in Accounts : claim(c)

NewStep ==
    \E a \in Accounts : new_on_existing(a)

Next == MintStep \/ TransferStep \/ ClaimStep \/ NewStep

Spec == Init /\ [][Next]_vars

\* ------------------------------------------------------------ properties
\* The call made by a step is described by last' (every step is one call).
IsCall(op) == last'.op = op
Fresh == nfts = <<>> /\ next_public_token_id = 1 /\ allowed_claimers = {}
ListSet(l) == {l[i] : i \in 1..Len(l)}

\* C1: transfer(r, p) signed by the owner c of the record at position p, with
\* r # c, returns true and leaves owner_id = r in the record stored at p; a
\* following transfer of position p signed by c returns false.
C1_TransferMovesOwnership ==
    [][ /\ ( /\ IsCall("transfer")
             /\ last'.token_id < Len(nfts)
             /\ nfts[last'.token_id + 1].owner_id = last'.caller
             /\ last'.receiver_id # last'.caller )
           => /\ last'.ret = RetTrue
              /\ nfts'[last'.token_id + 1].owner_id = last'.receiver_id
        /\ ( /\ last.op = "transfer" /\ last.ret = RetTrue
             /\ last.receiver_id # last.caller
             /\ IsCall("transfer")
             /\ last'.caller = last.caller
             /\ last'.token_id = last.token_id )
           => last'.ret = RetFalse
      ]_vars

C3_BatchMint ==
    [][ (IsCall("mint") /\ last'.caller = owner_id /\ ~last'.allowed_claimers.some)
          => /\ last'.ret = RetTrue
             /\ Len(nfts') = Len(nfts) + 100
             /\ SubSeq(nfts', 1, Len(nfts)) = nfts
             /\ \A i \in 1..100 :
                   nfts'[Len(nfts) + i] =
                       NFT(owner_id, next_public_token_id + (i - 1), last'.image_url)
             /\ next_public_token_id' = next_public_token_id + 100
             /\ allowed_claimers' = allowed_claimers
      ]_vars

C3_Witness ==
    /\ last.op = "mint" /\ last.ret = RetTrue /\ ~last.allowed_claimers.some
    /\ last.token_id = 1
    /\ Len(nfts) = 101
    /\ nfts[1].image_url = "" /\ nfts[1].token_id = 1
    /\ nfts[2].token_id = 2 /\ nfts[101].token_id = 101
    /\ next_public_token_id = 102

C6_ClaimRefused ==
    [][ (IsCall("claim") /\ allowed_claimers # {} /\ last'.caller \notin allowed_claimers)
          => /\ last'.ret = RetFalse
             /\ UNCHANGED <<nfts, next_public_token_id, allowed_claimers>>
      ]_vars

C6_Witness ==
    /\ last.op = "claim" /\ last.ret = RetFalse
    /\ last.caller = owner_id
    /\ allowed_claimers # {} /\ owner_id \notin allowed_claimers
    /\ Len(nfts) = 100

\* C7: transfer(r, p) returns false (it does not panic) and changes no
\* record, nor the counter, nor the claimer set, when position p holds no
\* record or the signer is not the owner of the record at p.
C7_TransferRefused ==
    [][ ( /\ IsCall("transfer")
          /\ \/ last'.token_id >= Len(nfts)
             \/ nfts[last'.token_id + 1].owner_id # last'.caller )
          => /\ last'.ret = RetFalse
             /\ UNCHANGED <<nfts, next_public_token_id, allowed_claimers>>
      ]_vars

C7_Witness ==
    /\ last.op = "transfer" /\ last.ret = RetFalse
    /\ last.token_id < Len(nfts)
    /\ nfts[last.token_id + 1].owner_id # last.caller
    /\ last.caller = owner_id
    /\ Len(nfts) = 101 /\ last.token_id = 100

\* C8: from a fresh ledger a batch mint by the owner leaves exactly 100
\* records with token ids 1..100, all owned by the owner; once the owner has
\* then registered the claimers list [X], claim by X succeeds and appends the
\* record (X, 101, ""), and claim by any other account returns false, before
\* as well as after the claim of X.
OwnerBatch ==
    /\ Len(nfts) >= 100
    /\ \A i \in 1..100 : nfts[i].token_id = i /\ nfts[i].owner_id = owner_id
AfterBatchThenList(X) ==
    /\ last.op = "mint" /\ last.caller = owner_id /\ last.ret = RetTrue
    /\ last.allowed_claimers = Some(<<X>>)
    /\ allowed_claimers = {X}
    /\ Len(nfts) = 100
    /\ OwnerBatch
AfterClaimOf(X) ==
    /\ last.op = "claim" /\ last.caller = X /\ last.ret = RetTrue
    /\ allowed_claimers = {X}
    /\ Len(nfts) = 101
    /\ nfts[101] = NFT(X, 101, "")
    /\ OwnerBatch
C8_Scenario ==
    [][ /\ (IsCall("mint") /\ last'.caller = owner_id
                  /\ ~last'.allowed_claimers.some /\ Fresh)
           => (Len(nfts') = 100 /\ OwnerBatch')
        /\ IsCall("claim") =>
             \A X \in Accounts :
               /\ (last'.caller = X /\ AfterBatchThenList(X))
                  => AfterClaimOf(X)'
               /\ (last'.caller # X /\ (AfterBatchThenList(X) \/ AfterClaimOf(X)))
                  => (last'.ret = RetFalse /\ nfts' = nfts)
      ]_vars

C8_Witness == AfterClaimOf("acc1")

\* C9: on a fresh ledger, after mint(token_id, image_url, Some(list)) signed
\* by the owner has returned true, position 0 of the registry holds the
\* record (owner, token_id, image_url) of the call's arguments.
C9_ListMintCreatesToken ==
    [][ (Fresh /\ IsCall("mint") /\ last'.caller = owner_id
               /\ last'.allowed_claimers.some /\ last'.ret = RetTrue)
          => /\ Len(nfts') >= 1
             /\ nfts'[1] = NFT(owner_id, last'.token_id, last'.image_url)
      ]_vars

\* C10: mint signed by an account that is not the owner returns false.
C10_UnauthorizedMintReturnsFalse ==
    (last.op = "mint" /\ last.caller # owner_id) => last.ret = RetFalse

\* C11: on a fresh ledger (no claimer registered yet) claim signed by an
\* account that is not the owner returns false.
C11_FreshClaimRefused ==
    [][ (IsCall("claim") /\ last'.caller # owner_id /\ Fresh)
          => last'.ret = RetFalse
      ]_vars

\* C12: from a fresh ledger, after the owner has registered the claimers list
\* [c], the first successful claim of c leaves the record (c, 2, "") at
\* position 0 of the registry.
C12_FirstClaimGetsIdTwo ==
    [][ (IsCall("claim") /\ last'.ret = RetTrue
           /\ last.op = "mint" /\ last.caller = owner_id /\ last.ret = RetTrue
           /\ last.allowed_claimers = Some(<<last'.caller>>)
           /\ allowed_claimers = {last'.caller}
           /\ nfts = <<>> /\ next_public_token_id = 1)
          => /\ Len(nfts') >= 1
             /\ nfts'[1] = NFT(last'.caller, 2, "")
      ]_vars

\* C13: whatever the call (mint, transfer, claim; successful, refused or
\* panicking), the registry does not get shorter, every record it held keeps
\* its token_id and image_url, and the owner_id of a record it held differs
\* afterwards only if the call is a transfer.
C13_RecordsPersist ==
    [][ \/ nfts' = nfts
        \/ /\ Len(nfts') >= Len(nfts)
           /\ \A i \in 1..Len(nfts) :
                /\ nfts'[i].token_id = nfts[i].token_id
                /\ nfts'[i].image_url = nfts[i].image_url
                /\ (nfts'[i].owner_id # nfts[i].owner_id => IsCall("transfer"))
      ]_vars

C13_Witness ==
    /\ last.op = "transfer" /\ last.ret = RetTrue
    /\ last.token_id = 100 /\ Len(nfts) = 101
    /\ nfts[101].token_id = 101 /\ nfts[101].image_url = ""
    /\ nfts[1].token_id = 1 /\ nfts[1].image_url # ""

\* C14: the claimer set never loses an account, so once it is non-empty it
\* stays non-empty, and from then on claim signed by an account that is not
\* in it returns false.
C14_ClaimersOnlyGrow ==
    [][ /\ allowed_claimers \subseteq allowed_claimers'
        /\ (allowed_claimers # {} => allowed_claimers' # {})
        /\ (allowed_claimers # {} /\ IsCall("claim")
               /\ last'.caller \notin allowed_claimers')
           => last'.ret = RetFalse
      ]_vars

C14_Witness ==
    /\ last.op = "mint" /\ last.ret = RetTrue
    /\ last.allowed_claimers = Some(<<>>)
    /\ allowed_claimers = {"acc1"}
    /\ Len(nfts) = 1 /\ nfts[1].owner_id = "acc2"

C16_ConstructOnce ==
    /\ [](last.ret = "none"
            => /\ last.op = "new"
               /\ nfts = <<>> /\ next_public_token_id = 1
               /\ allowed_claimers = {} /\ owner_id = last.caller)
    /\ [][ /\ IsCall("new") => (last'.ret = Panic /\ UNCHANGED state)
           /\ owner_id' = owner_id
         ]_vars

C16_Witness ==
    /\ last.op = "new" /\ last.ret = Panic /\ last.caller # owner_id
    /\ Len(nfts) = 101 /\ allowed_claimers # {}
    /\ next_public_token_id = 102

C19_OwnerConsent ==
    [][ \/ nfts' = nfts
        \/ /\ Len(nfts') >= Len(nfts)
           /\ \A i \in 1..Len(nfts) :
                nfts'[i].owner_id # nfts[i].owner_id
                  => /\ IsCall("transfer") /\ last'.ret = RetTrue
                     /\ last'.token_id = i - 1
                     /\ last'.caller = nfts[i].owner_id
      ]_vars

C19_Witness ==
    /\ last.op = "mint" /\ last.caller = owner_id /\ last.ret = RetTrue
    /\ ~last.allowed_claimers.some
    /\ Len(nfts) = 101
    /\ nfts[1].owner_id = "acc1" /\ nfts[2].owner_id = owner_id
    /\ allowed_claimers = {"acc2"}

TypeOK ==
    /\ owner_id \in Accounts
    /\ allowed_claimers \subseteq Accounts
    /\ next_public_token_id \in Nat
    /\ NumCreates <= MaxCreates
    /\ last.ret \in {"none", RetTrue, RetFalse, Panic}
====
